---- MODULE Spec2Model ----
(***************************************************************************)
(* HRMS Lite API (src/main.py): two relational tables, employees and       *)
(* attendance, and the request handlers over them.                         *)
(*                                                                         *)
(* Strings are sequences of one-character strings, so that strip(),        *)
(* lower(), the e-mail pattern and the date parser are computed rather     *)
(* than assumed.  A date is the triple <<year, month, day>>.               *)
(***************************************************************************)
EXTENDS Integers, Sequences, FiniteSets, TLC

VARIABLES
    employees,    \* rows of table "employees"
    attendance,   \* rows of table "attendance"
    nextEmpPk,    \* next value of the employees.id sequence
    nextAttPk,    \* next value of the attendance.id sequence
    isoBasic,     \* the interpreter's date.fromisoformat also reads YYYYMMDD
    req,          \* the last request served (sequential specification)
    resp,         \* and its response
    pc,           \* per worker: the statement its handler is at
    sess,         \* per worker: the state of its database session
    job,          \* per worker: the request it serves and what it has read
    out           \* per worker: the response of its last request

vars == <<employees, attendance, nextEmpPk, nextAttPk, isoBasic, req, resp,
          pc, sess, job, out>>

dbvars == <<employees, attendance, nextEmpPk, nextAttPk>>
seqvars == <<req, resp>>
procvars == <<pc, sess, job, out>>

-----------------------------------------------------------------------------
(* Bounds of the model.                                                    *)

MaxEmpPk == 2
MaxAttPk == 2

-----------------------------------------------------------------------------
(* Python's str and re, on sequences of characters.                        *)

Whitespace == {" ", "\t", "\n"}

UpperCase == <<"A","B","C","D","E","F","G","H","I","J","K","L","M",
               "N","O","P","Q","R","S","T","U","V","W","X","Y","Z">>
LowerCase == <<"a","b","c","d","e","f","g","h","i","j","k","l","m",
               "n","o","p","q","r","s","t","u","v","w","x","y","z">>
Digits == <<"0","1","2","3","4","5","6","7","8","9">>

Range(s) == {s[i] : i \in DOMAIN s}

AlphaNum == Range(UpperCase) \cup Range(LowerCase) \cup Range(Digits)

RECURSIVE lstrip(_)
lstrip(s) ==
    IF s = <<>> THEN <<>>
    ELSE IF Head(s) \in Whitespace THEN lstrip(Tail(s)) ELSE s

RECURSIVE rstrip(_)
rstrip(s) ==
    IF s = <<>> THEN <<>>
    ELSE IF s[Len(s)] \in Whitespace THEN rstrip(SubSeq(s, 1, Len(s) - 1)) ELSE s

strip(s) == rstrip(lstrip(s))

lower_char(c) ==
    IF c \in Range(UpperCase)
    THEN LowerCase[CHOOSE i \in DOMAIN UpperCase : UpperCase[i] = c]
    ELSE c

lower(s) == [i \in DOMAIN s |-> lower_char(s[i])]

(* str.split(sep)[0]: the text before the first separator.                 *)
RECURSIVE split_first(_, _)
split_first(s, sep) ==
    IF s = <<>> \/ Head(s) = sep THEN <<>>
    ELSE <<Head(s)>> \o split_first(Tail(s), sep)

(* re.match(r"^[a-zA-Z0-9_.+-]+@[a-zA-Z0-9-]+\.[a-zA-Z0-9-.]+$", s)         *)
EmailLocalChars == AlphaNum \cup {"_", ".", "+", "-"}
EmailDomainChars == AlphaNum \cup {"-"}
EmailSuffixChars == AlphaNum \cup {"-", "."}

email_pattern_match(s) ==
    \E at \in DOMAIN s : \E dot \in DOMAIN s :
        /\ 1 < at /\ at + 1 < dot /\ dot < Len(s)
        /\ s[at] = "@" /\ s[dot] = "."
        /\ \A i \in 1..(at - 1) : s[i] \in EmailLocalChars
        /\ \A i \in (at + 1)..(dot - 1) : s[i] \in EmailDomainChars
        /\ \A i \in (dot + 1)..Len(s) : s[i] \in EmailSuffixChars

-----------------------------------------------------------------------------
(* datetime.date                                                           *)

digit_value(c) == (CHOOSE i \in DOMAIN Digits : Digits[i] = c) - 1

all_digits(s) == \A i \in DOMAIN s : s[i] \in Range(Digits)

RECURSIVE number_of(_)
number_of(s) ==
    IF s = <<>> THEN 0
    ELSE 10 * number_of(SubSeq(s, 1, Len(s) - 1)) + digit_value(s[Len(s)])

is_leap(y) == (y % 4 = 0) /\ ((y % 100 # 0) \/ (y % 400 = 0))

days_in_month(y, m) ==
    IF m = 2 THEN (IF is_leap(y) THEN 29 ELSE 28)
    ELSE IF m \in {4, 6, 9, 11} THEN 30 ELSE 31

valid_ymd(y, m, d) ==
    /\ 1 <= y /\ y <= 9999
    /\ 1 <= m /\ m <= 12
    /\ 1 <= d /\ d <= days_in_month(y, m)

(* The fields of an ISO date text, or <<>> when it has neither the         *)
(* extended form YYYY-MM-DD nor (basic = TRUE) the basic form YYYYMMDD.    *)
iso_fields(s, basic) ==
    IF /\ Len(s) = 10 /\ s[5] = "-" /\ s[8] = "-"
       /\ all_digits(SubSeq(s, 1, 4)) /\ all_digits(SubSeq(s, 6, 7))
       /\ all_digits(SubSeq(s, 9, 10))
    THEN <<number_of(SubSeq(s, 1, 4)), number_of(SubSeq(s, 6, 7)),
           number_of(SubSeq(s, 9, 10))>>
    ELSE IF basic /\ Len(s) = 8 /\ all_digits(s)
    THEN <<number_of(SubSeq(s, 1, 4)), number_of(SubSeq(s, 5, 6)),
           number_of(SubSeq(s, 7, 8))>>
    ELSE <<>>

(* date.fromisoformat(s): [ok |-> FALSE] stands for ValueError.            *)
fromisoformat(s, basic) ==
    LET f == iso_fields(s, basic) IN
    IF f # <<>> /\ valid_ymd(f[1], f[2], f[3])
    THEN [ok |-> TRUE, v |-> f]
    ELSE [ok |-> FALSE, v |-> <<>>]

RECURSIVE zero_padded(_, _)
zero_padded(n, width) ==
    IF width = 0 THEN <<>>
    ELSE zero_padded(n \div 10, width - 1) \o <<Digits[(n % 10) + 1]>>

(* date.isoformat()                                                        *)
isoformat(d) ==
    zero_padded(d[1], 4) \o <<"-">> \o zero_padded(d[2], 2) \o <<"-">>
        \o zero_padded(d[3], 2)

-----------------------------------------------------------------------------
(* Request inputs: the raw texts a client may send.                        *)

Str_E1 == <<"E", "1">>
Str_E1_padded == <<" ", "E", "1">>
Str_E2 == <<"E", "2">>
Str_blank == <<" ">>
Str_Ann == <<"A", "n", "n">>
Str_Eng == <<"E", "n", "g">>
Str_HR == <<"H", "R">>
Str_ann_mail == <<"a", "@", "x", ".", "c">>
Str_ann_mail_raw == <<" ", "A", "@", "X", ".", "c">>
Str_bob_mail == <<"b", "@", "x", ".", "c">>
Str_bad_mail == <<"a", "@", "x">>
Str_day1 == <<"2", "0", "2", "4", "-", "0", "1", "-", "0", "1">>
Str_day2 == <<"2", "0", "2", "4", "-", "0", "1", "-", "0", "2">>
Str_day1_basic == <<"2", "0", "2", "4", "0", "1", "0", "1">>
Str_bad_day == <<"2", "0", "2", "3", "-", "0", "2", "-", "2", "9">>

RawEmployee(employee_id, full_name, email, department) ==
    [employee_id |-> employee_id, full_name |-> full_name, email |-> email,
     department |-> department]

RawAttendance(employee_id, date, status) ==
    [employee_id |-> employee_id, date |-> date, status |-> status]

(* Bodies of POST /employees: two employees, a second body for each that   *)
(* repeats the other's id or e-mail up to padding and case, and bodies     *)
(* the validators reject.                                                  *)
RawEmployees ==
    { RawEmployee(Str_E1, Str_Ann, Str_ann_mail, Str_Eng),
      RawEmployee(Str_E1_padded, Str_Ann, Str_bob_mail, Str_HR),
      RawEmployee(Str_E2, Str_Ann, Str_ann_mail_raw, Str_HR),
      RawEmployee(Str_E2, Str_Ann, Str_bob_mail, Str_Eng),
      RawEmployee(Str_blank, Str_Ann, Str_bob_mail, Str_Eng),
      RawEmployee(Str_E1, Str_Ann, Str_bad_mail, Str_Eng) }

(* Bodies of POST /attendance.                                             *)
RawAttendances ==
    { RawAttendance(Str_E1, Str_day1, "Present"),
      RawAttendance(Str_E1, Str_day1, "Absent"),
      RawAttendance(Str_E1_padded, Str_day2, "Present"),
      RawAttendance(Str_E1, Str_day1_basic, "Absent"),
      RawAttendance(Str_E2, Str_day1, "Present"),
      RawAttendance(Str_blank, Str_day1, "Present"),
      RawAttendance(Str_E1, Str_bad_day, "Present"),
      RawAttendance(Str_E1, Str_day1, "Late") }

PathEmployeeIds == {Str_E1, Str_E1_padded, Str_E2}

RawDates == {Str_day1, Str_day2, Str_day1_basic, Str_bad_day}

(* Optional[str] query parameters.                                         *)
None == [some |-> FALSE, v |-> <<>>]
Some(s) == [some |-> TRUE, v |-> s]
truthy(o) == o.some /\ o.v # <<>>

QueryEmployeeIds == {None, Some(<<>>), Some(Str_E1), Some(Str_E2)}
QueryDates == {None, Some(Str_day1)}

-----------------------------------------------------------------------------
(* Schemas: the pydantic validators.  [ok |-> FALSE] stands for the        *)
(* ValueError that the framework turns into a 422 response.                *)

Valid(v) == [ok |-> TRUE, v |-> v]
ValueError == [ok |-> FALSE, v |-> <<>>]

EmployeeCreate_validate_employee_id(v) ==
    IF strip(v) = <<>> THEN ValueError ELSE Valid(strip(v))

validate_full_name(v) ==
    IF strip(v) = <<>> THEN ValueError ELSE Valid(strip(v))

validate_email(v) ==
    IF ~email_pattern_match(lower(strip(v))) THEN ValueError
    ELSE Valid(lower(strip(v)))

validate_department(v) ==
    IF strip(v) = <<>> THEN ValueError ELSE Valid(strip(v))

EmployeeCreate(raw) ==
    LET id == EmployeeCreate_validate_employee_id(raw.employee_id)
        nm == validate_full_name(raw.full_name)
        em == validate_email(raw.email)
        dp == validate_department(raw.department)
    IN  IF id.ok /\ nm.ok /\ em.ok /\ dp.ok
        THEN [ok |-> TRUE,
              data |-> [employee_id |-> id.v, full_name |-> nm.v,
                        email |-> em.v, department |-> dp.v]]
        ELSE [ok |-> FALSE, data |-> raw]

AttendanceCreate_validate_employee_id(v) ==
    IF strip(v) = <<>> THEN ValueError ELSE Valid(strip(v))

validate_date(v, basic) ==
    IF ~fromisoformat(v, basic).ok THEN ValueError ELSE Valid(v)

StatusLiteral == {"Present", "Absent"}

AttendanceCreate(raw, basic) ==
    LET id == AttendanceCreate_validate_employee_id(raw.employee_id)
        dt == validate_date(raw.date, basic)
    IN  IF id.ok /\ dt.ok /\ raw.status \in StatusLiteral
        THEN [ok |-> TRUE,
              data |-> [employee_id |-> id.v, date |-> dt.v,
                        status |-> raw.status]]
        ELSE [ok |-> FALSE, data |-> raw]

(* The conversions tabulated over the model's inputs: every entry is the   *)
(* value the operator computes.                                            *)
fromisoformat_at ==
    [basic \in BOOLEAN |-> [s \in RawDates |-> fromisoformat(s, basic)]]

Dates == {fromisoformat(s, TRUE).v : s \in {t \in RawDates : fromisoformat(t, TRUE).ok}}

isoformat_at == [d \in Dates |-> isoformat(d)]

EmployeeBodies == {[raw |-> r, v |-> EmployeeCreate(r)] : r \in RawEmployees}

AttendanceBodies ==
    [basic \in BOOLEAN |->
        {[raw |-> r, v |-> AttendanceCreate(r, basic)] : r \in RawAttendances}]

(* The response schemas Employee and AttendanceRecord.                     *)
Employee(e) ==
    [employee_id |-> e.employee_id, full_name |-> e.full_name,
     email |-> e.email, department |-> e.department]

AttendanceRecord(employee_id, date, status) ==
    [employee_id |-> employee_id, date |-> date, status |-> status]

Response(code, body) == [status |-> code, body |-> body]
HTTPException(code) == [status |-> code, body |-> {}]

-----------------------------------------------------------------------------
(* The tables and their constraints.                                       *)

(* Mutant: full_name and department stored in each other's column.         *)
EmployeeModel_swapped(id, data) ==
    [id |-> id, employee_id |-> data.employee_id, full_name |-> data.department,
     email |-> data.email, department |-> data.full_name]

EmployeeModel(id, data) ==
    [id |-> id, employee_id |-> data.employee_id, full_name |-> data.full_name,
     email |-> data.email, department |-> data.department]

AttendanceModel(id, employee_pk, date, status) ==
    [id |-> id, employee_id |-> employee_pk, date |-> date, status |-> status]

primary_key(rows) == \A a, b \in rows : a.id = b.id => a = b

unique_employee_id(emps) ==
    \A a, b \in emps : a.employee_id = b.employee_id => a = b

(* Mutant: the email column without unique=True.                           *)
unique_email_dropped(emps) == TRUE

unique_email(emps) == \A a, b \in emps : a.email = b.email => a = b

(* Mutant: the table without UniqueConstraint("employee_id", "date").      *)
uq_employee_date_dropped(att) == TRUE

uq_employee_date(att) ==
    \A a, b \in att : (a.employee_id = b.employee_id /\ a.date = b.date) => a = b

fk_employee(emps, att) == \A r \in att : \E e \in emps : e.id = r.employee_id

(* What the store accepts at commit; otherwise IntegrityError.             *)
integrity(emps, att) ==
    /\ primary_key(emps) /\ primary_key(att)
    /\ unique_employee_id(emps) /\ unique_email(emps)
    /\ uq_employee_date(att)
    /\ fk_employee(emps, att)

(* Query.first(): a row of the result, or none.                            *)
first(rows) == IF rows = {} THEN {} ELSE {CHOOSE r \in rows : TRUE}

by_employee_id(emps, employee_id) ==
    first({e \in emps : e.employee_id = employee_id})

by_email(emps, email) == first({e \in emps : e.email = email})

(* Mutant: the record lookup filtered by employee only.                    *)
by_employee_date_any_date(att, employee_pk, date) ==
    first({r \in att : r.employee_id = employee_pk})

by_employee_date(att, employee_pk, date) ==
    first({r \in att : r.employee_id = employee_pk /\ r.date = date})

(* db.delete(employee) with cascade="all, delete-orphan" and               *)
(* ondelete="CASCADE": the employee's attendance rows go with it.          *)
(* Mutant: neither cascade; the attendance rows stay behind.               *)
cascade_delete_none(att, employee_pk) == att

cascade_delete(att, employee_pk) == {r \in att : r.employee_id # employee_pk}

-----------------------------------------------------------------------------
(* The handlers, each run from its first statement to its return on the    *)
(* tables it is given.                                                     *)

list_employees(emps) == Response(200, {Employee(e) : e \in emps})

(* Mutant: the duplicate e-mail check left out of the handler.             *)
create_employee_no_email_check(emps, att, pk, data) ==
    LET existing_by_id == by_employee_id(emps, data.employee_id)
        employee == EmployeeModel(pk, data)
    IN  IF existing_by_id # {}
        THEN [resp |-> HTTPException(409), employees |-> emps, inserted |-> FALSE]
        ELSE IF ~integrity(emps \cup {employee}, att)
        THEN [resp |-> HTTPException(500), employees |-> emps, inserted |-> FALSE]
        ELSE [resp |-> Response(201, {Employee(employee)}),
              employees |-> emps \cup {employee}, inserted |-> TRUE]

create_employee(emps, att, pk, data) ==
    LET existing_by_id == by_employee_id(emps, data.employee_id)
        existing_by_email == by_email(emps, data.email)
        employee == EmployeeModel(pk, data)
    IN  IF existing_by_id # {}
        THEN [resp |-> HTTPException(409), employees |-> emps, inserted |-> FALSE]
        ELSE IF existing_by_email # {}
        THEN [resp |-> HTTPException(409), employees |-> emps, inserted |-> FALSE]
        ELSE IF ~integrity(emps \cup {employee}, att)
        THEN [resp |-> HTTPException(500), employees |-> emps, inserted |-> FALSE]
        ELSE [resp |-> Response(201, {Employee(employee)}),
              employees |-> emps \cup {employee}, inserted |-> TRUE]

(* Mutant: a missing employee answered 200 with nothing in it.             *)
get_employee_no_404(emps, employee_id) ==
    Response(200, {Employee(e) : e \in by_employee_id(emps, employee_id)})

get_employee(emps, employee_id) ==
    LET employee == by_employee_id(emps, employee_id)
    IN  IF employee = {} THEN HTTPException(404)
        ELSE Response(200, {Employee(e) : e \in employee})

delete_employee(emps, att, employee_id) ==
    LET employee == by_employee_id(emps, employee_id)
    IN  IF employee = {}
        THEN [resp |-> HTTPException(404), employees |-> emps, attendance |-> att]
        ELSE LET e == CHOOSE x \in employee : TRUE
             IN  [resp |-> Response(200, {}),
                  employees |-> emps \ {e},
                  attendance |-> cascade_delete(att, e.id)]

(* query(AttendanceModel).join(EmployeeModel), each row with its owner.    *)
joined(emps, att) ==
    {<<r, e>> \in att \X emps : e.id = r.employee_id}

(* Mutant: the employee_id filter never applied.                           *)
list_attendance_unfiltered(emps, att, employee_id, date) ==
    Response(200, {AttendanceRecord(p[2].employee_id, isoformat_at[p[1].date],
                                    p[1].status) : p \in joined(emps, att)})

list_attendance(emps, att, employee_id, date) ==
    LET query == joined(emps, att)
        filtered == IF truthy(employee_id)
                    THEN {p \in query : p[2].employee_id = employee_id.v}
                    ELSE query
        \* the date branch computes date_parsed and filters nothing by it
        date_parsed == IF truthy(date) THEN split_first(date.v, "T") ELSE <<>>
        records == filtered
    IN  Response(200, {AttendanceRecord(p[2].employee_id, isoformat_at[p[1].date],
                                        p[1].status) : p \in records})

mark_attendance(emps, att, pk, data, basic) ==
    LET employee == by_employee_id(emps, data.employee_id)
    IN  IF employee = {}
        THEN [resp |-> HTTPException(404), attendance |-> att, inserted |-> FALSE]
        ELSE
        LET e == CHOOSE x \in employee : TRUE
            attendance_date == fromisoformat_at[basic][data.date].v
            record == by_employee_date(att, e.id, attendance_date)
        IN  IF record # {}
            THEN LET old == CHOOSE x \in record : TRUE
                     new == [old EXCEPT !.status = data.status]
                 IN  [resp |-> Response(201, {AttendanceRecord(e.employee_id,
                                   isoformat_at[new.date], new.status)}),
                      attendance |-> (att \ {old}) \cup {new},
                      inserted |-> FALSE]
            ELSE LET new == AttendanceModel(pk, e.id, attendance_date, data.status)
                 IN  IF ~integrity(emps, att \cup {new})
                     THEN [resp |-> HTTPException(500), attendance |-> att,
                           inserted |-> FALSE]
                     ELSE [resp |-> Response(201, {AttendanceRecord(e.employee_id,
                                       isoformat_at[new.date], new.status)}),
                           attendance |-> att \cup {new},
                           inserted |-> TRUE]

-----------------------------------------------------------------------------
(* Requests served one at a time.                                          *)

GET_employees ==
    /\ req' = [op |-> "list_employees"]
    /\ resp' = list_employees(employees)
    /\ UNCHANGED <<dbvars, isoBasic, procvars>>

POST_employees(body) ==
    LET raw == body.raw
        v == body.v
        o == create_employee(employees, attendance, nextEmpPk, v.data)
    IN  /\ req' = [op |-> "create_employee", raw |-> raw]
        /\ IF ~v.ok
           THEN /\ resp' = HTTPException(422)
                /\ UNCHANGED dbvars
           ELSE /\ o.inserted => nextEmpPk <= MaxEmpPk
                /\ resp' = o.resp
                /\ employees' = o.employees
                /\ nextEmpPk' = IF o.inserted THEN nextEmpPk + 1 ELSE nextEmpPk
                /\ UNCHANGED <<attendance, nextAttPk>>
        /\ UNCHANGED <<isoBasic, procvars>>

GET_employee(employee_id) ==
    /\ req' = [op |-> "get_employee", employee_id |-> employee_id]
    /\ resp' = get_employee(employees, employee_id)
    /\ UNCHANGED <<dbvars, isoBasic, procvars>>

DELETE_employee(employee_id) ==
    LET o == delete_employee(employees, attendance, employee_id)
    IN  /\ req' = [op |-> "delete_employee", employee_id |-> employee_id]
        /\ resp' = o.resp
        /\ employees' = o.employees
        /\ attendance' = o.attendance
        /\ UNCHANGED <<nextEmpPk, nextAttPk, isoBasic, procvars>>

GET_attendance(employee_id, date) ==
    /\ req' = [op |-> "list_attendance", employee_id |-> employee_id,
               date |-> date]
    /\ resp' = list_attendance(employees, attendance, employee_id, date)
    /\ UNCHANGED <<dbvars, isoBasic, procvars>>

POST_attendance(body) ==
    LET raw == body.raw
        v == body.v
        o == mark_attendance(employees, attendance, nextAttPk, v.data, isoBasic)
    IN  /\ req' = [op |-> "mark_attendance", raw |-> raw]
        /\ IF ~v.ok
           THEN /\ resp' = HTTPException(422)
                /\ UNCHANGED dbvars
           ELSE /\ o.inserted => nextAttPk <= MaxAttPk
                /\ resp' = o.resp
                /\ attendance' = o.attendance
                /\ nextAttPk' = IF o.inserted THEN nextAttPk + 1 ELSE nextAttPk
                /\ UNCHANGED <<employees, nextEmpPk>>
        /\ UNCHANGED <<isoBasic, procvars>>

-----------------------------------------------------------------------------
(* Requests served concurrently: each worker runs one handler at a time,   *)
(* a statement per step, in a session of its own (get_db).  A commit is    *)
(* one atomic step of the store, which refuses it with IntegrityError      *)
(* when a constraint would break.                                          *)

Workers == {"w1", "w2"}

ConcurrentRequests ==
    {[op |-> "create_employee", data |-> b.v.data, ok |-> b.v.ok] :
        b \in {x \in EmployeeBodies :
                 x.raw \in { RawEmployee(Str_E1, Str_Ann, Str_ann_mail, Str_Eng),
                             RawEmployee(Str_E1_padded, Str_Ann, Str_bob_mail, Str_HR),
                             RawEmployee(Str_E2, Str_Ann, Str_ann_mail_raw, Str_HR),
                             RawEmployee(Str_E1, Str_Ann, Str_bad_mail, Str_Eng) }}}
    \cup
    {[op |-> "mark_attendance", data |-> b.v.data, ok |-> b.v.ok] :
        b \in {x \in AttendanceBodies[FALSE] :
                 x.raw \in { RawAttendance(Str_E1, Str_day1, "Present") }}}
    \cup
    { [op |-> "delete_employee", employee_id |-> Str_E1, ok |-> TRUE],
      [op |-> "get_employee", employee_id |-> Str_E1, ok |-> TRUE],
      [op |-> "list_employees", ok |-> TRUE],
      [op |-> "list_attendance", employee_id |-> None, date |-> None, ok |-> TRUE] }

NoJob == [op |-> "none"]
NoResponse == Response(0, {})

first_statement(op) ==
    CASE op = "create_employee" -> "create_by_id"
      [] op = "mark_attendance" -> "mark_employee"
      [] op = "delete_employee" -> "delete_query"
      [] op = "get_employee" -> "get_query"
      [] op = "list_employees" -> "list_employees_query"
      [] op = "list_attendance" -> "list_attendance_query"

(* How many workers hold a request that may still draw a key from a        *)
(* sequence: the model accepts an insert only while keys are left.         *)
pending(op, labels) ==
    Cardinality({w \in Workers : job[w].op = op /\ pc[w] \in labels})

may_accept(r) ==
    CASE r.op = "create_employee" ->
            nextEmpPk + pending("create_employee",
                {"create_by_id", "create_by_email", "create_commit"}) <= MaxEmpPk
      [] r.op = "mark_attendance" ->
            nextAttPk + pending("mark_attendance",
                {"mark_employee", "mark_record", "mark_commit"}) <= MaxAttPk
      [] OTHER -> TRUE

goto(w, label) == pc' = [pc EXCEPT ![w] = label]
raise(w, code) ==
    /\ out' = [out EXCEPT ![w] = HTTPException(code)]
    /\ pc' = [pc EXCEPT ![w] = "exit"]
return(w, response) ==
    /\ out' = [out EXCEPT ![w] = response]
    /\ pc' = [pc EXCEPT ![w] = "exit"]

(* get_db up to its yield: the request gets a session; a body the schema   *)
(* rejects is answered 422 without entering the handler.                   *)
get_db_open(w, r) ==
    /\ pc[w] = "idle"
    /\ may_accept(r)
    /\ sess' = [sess EXCEPT ![w] = "open"]
    /\ job' = [job EXCEPT ![w] = r]
    /\ IF r.ok
       THEN /\ goto(w, first_statement(r.op))
            /\ out' = [out EXCEPT ![w] = NoResponse]
       ELSE raise(w, 422)
    /\ UNCHANGED <<dbvars, isoBasic, seqvars>>

(* Mutant: db.close() after the yield but outside a finally, so reached    *)
(* only when the handler returned.                                         *)
get_db_close_on_success(w) ==
    /\ pc[w] = "exit"
    /\ out[w].status < 400
    /\ sess' = [sess EXCEPT ![w] = "closed"]
    /\ pc' = [pc EXCEPT ![w] = "idle"]
    /\ job' = [job EXCEPT ![w] = NoJob]
    /\ UNCHANGED <<dbvars, isoBasic, seqvars, out>>

(* get_db's finally: db.close(), however the handler ended; the response   *)
(* has gone to the client and the worker is free again.                    *)
get_db_close(w) ==
    /\ pc[w] = "exit"
    /\ sess' = [sess EXCEPT ![w] = "closed"]
    /\ pc' = [pc EXCEPT ![w] = "idle"]
    /\ job' = [job EXCEPT ![w] = NoJob]
    /\ UNCHANGED <<dbvars, isoBasic, seqvars, out>>

create_by_id(w) ==
    /\ pc[w] = "create_by_id"
    /\ IF by_employee_id(employees, job[w].data.employee_id) # {}
       THEN raise(w, 409)
       ELSE goto(w, "create_by_email") /\ UNCHANGED out
    /\ UNCHANGED <<dbvars, isoBasic, seqvars, sess, job>>

create_by_email(w) ==
    /\ pc[w] = "create_by_email"
    /\ IF by_email(employees, job[w].data.email) # {}
       THEN raise(w, 409)
       ELSE goto(w, "create_commit") /\ UNCHANGED out
    /\ UNCHANGED <<dbvars, isoBasic, seqvars, sess, job>>

create_commit(w) ==
    LET employee == EmployeeModel(nextEmpPk, job[w].data)
    IN  /\ pc[w] = "create_commit"
        /\ nextEmpPk' = nextEmpPk + 1
        /\ IF integrity(employees \cup {employee}, attendance)
           THEN /\ employees' = employees \cup {employee}
                /\ job' = [job EXCEPT ![w] =
                             [op |-> "create_employee", data |-> job[w].data,
                              ok |-> TRUE, pk |-> employee.id]]
                /\ goto(w, "create_refresh")
                /\ UNCHANGED out
           ELSE /\ raise(w, 500)
                /\ UNCHANGED <<employees, job>>
        /\ UNCHANGED <<attendance, nextAttPk, isoBasic, seqvars, sess>>

create_refresh(w) ==
    LET row == {e \in employees : e.id = job[w].pk}
    IN  /\ pc[w] = "create_refresh"
        /\ IF row = {} THEN raise(w, 500)
           ELSE return(w, Response(201, {Employee(e) : e \in row}))
        /\ UNCHANGED <<dbvars, isoBasic, seqvars, sess, job>>

get_query(w) ==
    /\ pc[w] = "get_query"
    /\ return(w, get_employee(employees, job[w].employee_id))
    /\ UNCHANGED <<dbvars, isoBasic, seqvars, sess, job>>

list_employees_query(w) ==
    /\ pc[w] = "list_employees_query"
    /\ return(w, list_employees(employees))
    /\ UNCHANGED <<dbvars, isoBasic, seqvars, sess, job>>

list_attendance_query(w) ==
    /\ pc[w] = "list_attendance_query"
    /\ return(w, list_attendance(employees, attendance, job[w].employee_id,
                                 job[w].date))
    /\ UNCHANGED <<dbvars, isoBasic, seqvars, sess, job>>

delete_query(w) ==
    LET employee == by_employee_id(employees, job[w].employee_id)
    IN  /\ pc[w] = "delete_query"
        /\ IF employee = {}
           THEN raise(w, 404) /\ UNCHANGED job
           ELSE /\ job' = [job EXCEPT ![w] =
                             [op |-> "delete_employee",
                              employee_id |-> job[w].employee_id, ok |-> TRUE,
                              pk |-> (CHOOSE e \in employee : TRUE).id]]
                /\ goto(w, "delete_commit")
                /\ UNCHANGED out
        /\ UNCHANGED <<dbvars, isoBasic, seqvars, sess>>

delete_commit(w) ==
    /\ pc[w] = "delete_commit"
    /\ employees' = {e \in employees : e.id # job[w].pk}
    /\ attendance' = cascade_delete(attendance, job[w].pk)
    /\ return(w, Response(200, {}))
    /\ UNCHANGED <<nextEmpPk, nextAttPk, isoBasic, seqvars, sess, job>>

mark_employee(w) ==
    LET employee == by_employee_id(employees, job[w].data.employee_id)
    IN  /\ pc[w] = "mark_employee"
        /\ IF employee = {}
           THEN raise(w, 404) /\ UNCHANGED job
           ELSE /\ job' = [job EXCEPT ![w] =
                             [op |-> "mark_attendance", data |-> job[w].data,
                              ok |-> TRUE,
                              employee |-> (CHOOSE e \in employee : TRUE).id,
                              record |-> 0]]
                /\ goto(w, "mark_record")
                /\ UNCHANGED out
        /\ UNCHANGED <<dbvars, isoBasic, seqvars, sess>>

(* record |-> 0: the query found no row (keys start at 1).                 *)
mark_record(w) ==
    LET attendance_date == fromisoformat_at[isoBasic][job[w].data.date].v
        record == by_employee_date(attendance, job[w].employee, attendance_date)
    IN  /\ pc[w] = "mark_record"
        /\ job' = [job EXCEPT ![w].record =
                     IF record = {} THEN 0 ELSE (CHOOSE r \in record : TRUE).id]
        /\ goto(w, "mark_commit")
        /\ UNCHANGED <<dbvars, isoBasic, seqvars, sess, out>>

mark_commit(w) ==
    LET attendance_date == fromisoformat_at[isoBasic][job[w].data.date].v
        stored == {r \in attendance : r.id = job[w].record}
        updated == {[r EXCEPT !.status = job[w].data.status] : r \in stored}
        new == AttendanceModel(nextAttPk, job[w].employee, attendance_date,
                               job[w].data.status)
    IN  /\ pc[w] = "mark_commit"
        /\ IF job[w].record # 0
           THEN \* UPDATE ... WHERE id = record.id; no row matched: StaleDataError
                IF stored = {}
                THEN raise(w, 500) /\ UNCHANGED <<attendance, nextAttPk, job>>
                ELSE /\ attendance' = (attendance \ stored) \cup updated
                     /\ goto(w, "mark_refresh")
                     /\ UNCHANGED <<nextAttPk, job, out>>
           ELSE /\ nextAttPk' = nextAttPk + 1
                /\ IF integrity(employees, attendance \cup {new})
                   THEN /\ attendance' = attendance \cup {new}
                        /\ job' = [job EXCEPT ![w].record = new.id]
                        /\ goto(w, "mark_refresh")
                        /\ UNCHANGED out
                   ELSE raise(w, 500) /\ UNCHANGED <<attendance, job>>
        /\ UNCHANGED <<employees, nextEmpPk, isoBasic, seqvars, sess>>

mark_refresh(w) ==
    LET record == {r \in attendance : r.id = job[w].record}
        employee == {e \in employees : e.id = job[w].employee}
    IN  /\ pc[w] = "mark_refresh"
        /\ IF record = {} \/ employee = {} THEN raise(w, 500)
           ELSE return(w, Response(201,
                    {AttendanceRecord(e.employee_id, isoformat_at[r.date], r.status) :
                        <<r, e>> \in record \X employee}))
        /\ UNCHANGED <<dbvars, isoBasic, seqvars, sess, job>>

handler_step(w) ==
    \/ create_by_id(w) \/ create_by_email(w) \/ create_commit(w)
    \/ create_refresh(w)
    \/ get_query(w) \/ list_employees_query(w) \/ list_attendance_query(w)
    \/ delete_query(w) \/ delete_commit(w)
    \/ mark_employee(w) \/ mark_record(w) \/ mark_commit(w) \/ mark_refresh(w)

Init ==
    /\ employees = {}
    /\ attendance = {}
    /\ nextEmpPk = 1
    /\ nextAttPk = 1
    /\ isoBasic \in BOOLEAN
    /\ req = [op |-> "none"]
    /\ resp = NoResponse
    /\ pc = [w \in Workers |-> "idle"]
    /\ sess = [w \in Workers |-> "closed"]
    /\ job = [w \in Workers |-> NoJob]
    /\ out = [w \in Workers |-> NoResponse]

Next ==
    \/ GET_employees
    \/ \E body \in EmployeeBodies : POST_employees(body)
    \/ \E id \in PathEmployeeIds : GET_employee(id)
    \/ \E id \in PathEmployeeIds : DELETE_employee(id)
    \/ \E id \in QueryEmployeeIds : \E d \in QueryDates : GET_attendance(id, d)
    \/ \E body \in AttendanceBodies[isoBasic] : POST_attendance(body)

Spec == Init /\ [][Next]_vars

ConcNext ==
    \/ \E w \in Workers : \E r \in ConcurrentRequests : get_db_open(w, r)
    \/ \E w \in Workers : handler_step(w)
    \/ \E w \in Workers : get_db_close(w)

(* The concurrent requests carry dates in the extended form only, which    *)
(* every interpreter reads alike.                                          *)
ConcInit == Init /\ isoBasic = FALSE

ConcSpec == ConcInit /\ [][ConcNext]_vars

(* A worker that has taken a request runs it to the end.                   *)
FairSpec ==
    ConcSpec /\ \A w \in Workers : WF_vars(handler_step(w) \/ get_db_close(w))

-----------------------------------------------------------------------------
(* Properties.  In the sequential specification req' and resp' are the     *)
(* request a step serves and its response.  What a property reads of a     *)
(* request body is tabulated once over the bodies (the _case tables).      *)

rows_of(att, employee_pk, date) ==
    {r \in att : r.employee_id = employee_pk /\ r.date = date}

owned_records(emps, att, employee_id) ==
    {AttendanceRecord(p[2].employee_id, isoformat(p[1].date), p[1].status) :
        p \in {q \in att \X emps :
                 q[2].id = q[1].employee_id /\ q[2].employee_id = employee_id}}

all_records(emps, att) ==
    {AttendanceRecord(p[2].employee_id, isoformat(p[1].date), p[1].status) :
        p \in {q \in att \X emps : q[2].id = q[1].employee_id}}

(* C1: in every reachable state the attendance table holds at most one row *)
(* for each (employee, date) pair.  Checked under every interleaving of    *)
(* the requests, the serial orders among them.                             *)
C1_OneRowPerEmployeeDate ==
    \A r \in attendance :
        Cardinality(rows_of(attendance, r.employee_id, r.date)) = 1

(* Two workers have both marked the same (employee, date) and both were    *)
(* answered 201; the table holds one row.                                  *)
C1_Witness ==
    /\ \A w \in Workers :
          /\ job[w].op = "mark_attendance"
          /\ pc[w] = "exit"
          /\ out[w].status = 201
    /\ Cardinality(attendance) = 1

(* C2: a mark request for an existing employee E and date D is answered    *)
(* 201, leaves exactly one row for (E, D), with the submitted status, and  *)
(* changes no other attendance row and no employee row.  The response     *)
(* carries the body as submitted, or (normalised) as normalised.           *)
C2_normalised(raw, basic) ==
    [employee_id |-> strip(raw.employee_id),
     date |-> isoformat(fromisoformat(raw.date, basic).v),
     status |-> raw.status]

C2_case ==
    [basic \in BOOLEAN |-> [raw \in RawAttendances |->
        [ok |-> AttendanceCreate(raw, basic).ok,
         employee_id |-> strip(raw.employee_id),
         date |-> fromisoformat(raw.date, basic).v,
         normalised |-> IF fromisoformat(raw.date, basic).ok
                        THEN C2_normalised(raw, basic) ELSE raw]]]

C2_MarkStep(normalised) ==
    req'.op = "mark_attendance" =>
        LET c == C2_case[isoBasic][req'.raw]
            owner == {e \in employees : e.employee_id = c.employee_id}
            echo == IF normalised THEN c.normalised ELSE req'.raw
        IN  (c.ok /\ owner # {}) =>
              \A e \in owner :
                /\ resp'.status = 201
                /\ resp'.body = {echo}
                /\ Cardinality(rows_of(attendance', e.id, c.date)) = 1
                /\ \A r \in rows_of(attendance', e.id, c.date) :
                      r.status = req'.raw.status
                /\ employees' = employees
                /\ attendance' \ rows_of(attendance', e.id, c.date)
                     = attendance \ rows_of(attendance, e.id, c.date)

(* C2 as stated: the response carries the submitted payload.               *)
C2_Original == [][C2_MarkStep(FALSE)]_vars

(* C2 as amended: the response carries the payload in normalised form:     *)
(* the employee_id trimmed, the date as YYYY-MM-DD, the submitted status.  *)
C2_Upsert == [][C2_MarkStep(TRUE)]_vars

(* The last request marked a (employee, date) whose row is older than      *)
(* another row: it was a repeated mark, answered 201.                      *)
C2_Witness ==
    /\ req.op = "mark_attendance"
    /\ resp.status = 201
    /\ \E e \in employees : \E r1, r2 \in attendance :
          /\ e.employee_id = strip(req.raw.employee_id)
          /\ r1.employee_id = e.id
          /\ isoformat(r1.date) = (CHOOSE b \in resp.body : TRUE).date
          /\ r1.id < r2.id
          /\ r1.status = "Absent"

(* C3: after a successful delete of E, get-by-id for E is 404, the list of *)
(* employees lacks E and no attendance row of E remains; and in every      *)
(* state every attendance row references an employee that exists.          *)
C3_NoOrphans == \A r \in attendance : \E e \in employees : e.id = r.employee_id

C3_DeleteStep ==
    (req'.op = "delete_employee" /\ resp'.status = 200) =>
        LET E == req'.employee_id
            deleted == {e \in employees : e.employee_id = E}
        IN  /\ deleted # {}
            /\ get_employee(employees', E).status = 404
            /\ \A b \in list_employees(employees').body : b.employee_id # E
            /\ \A r \in attendance' : \A e \in deleted : r.employee_id # e.id
            /\ \A e \in employees \ deleted : e \in employees'

C3_DeleteCascades == []C3_NoOrphans /\ [][C3_DeleteStep]_vars

(* A delete succeeded and every attendance row ever inserted is gone.      *)
C3_Witness ==
    /\ req.op = "delete_employee"
    /\ resp.status = 200
    /\ nextAttPk > 1
    /\ attendance = {}

(* C4: a create request (one the schema accepts) whose employee_id is that *)
(* of an existing employee, or whose trimmed, lower-cased email is, fails  *)
(* with 409 and changes nothing.                                           *)
C4_case ==
    [raw \in RawEmployees |->
        [ok |-> EmployeeCreate(raw).ok,
         employee_id |-> strip(raw.employee_id),
         email |-> lower(strip(raw.email))]]

C4_CreateStep ==
    req'.op = "create_employee" =>
        LET c == C4_case[req'.raw]
        IN  (/\ c.ok
             /\ \E e \in employees :
                   \/ e.employee_id = c.employee_id
                   \/ e.email = c.email)
            => /\ resp'.status = 409
               /\ UNCHANGED dbvars

C4_DuplicateIsConflict == [][C4_CreateStep]_vars

(* A create was refused 409 for its e-mail alone, sent padded and in       *)
(* upper case.                                                             *)
C4_Witness ==
    /\ req.op = "create_employee"
    /\ resp.status = 409
    /\ req.raw.email # lower(strip(req.raw.email))
    /\ \E e \in employees : e.email = lower(strip(req.raw.email))
    /\ \A e \in employees : e.employee_id # strip(req.raw.employee_id)

(* C5: listing attendance with a date filter returns only records of that  *)
(* date.                                                                   *)
C5_DateFilter ==
    (req.op = "list_attendance" /\ truthy(req.date)) =>
        \A b \in resp.body : b.date = req.date.v

(* C6: under any interleaving no state holds two employees with one        *)
(* employee_id or one email, or two attendance rows with one (employee,    *)
(* date); a commit that meets a row holding its key fails and inserts      *)
(* nothing.                                                                *)
C6_Unique ==
    /\ \A a, b \in employees :
          (a.employee_id = b.employee_id \/ a.email = b.email) => a = b
    /\ \A a, b \in attendance :
          (a.employee_id = b.employee_id /\ a.date = b.date) => a = b

C6_conflict(w) ==
    \/ /\ pc[w] = "create_commit"
       /\ \E e \in employees :
             \/ e.employee_id = job[w].data.employee_id
             \/ e.email = job[w].data.email
    \/ /\ pc[w] = "mark_commit"
       /\ job[w].record = 0
       /\ \E r \in attendance :
             /\ r.employee_id = job[w].employee
             /\ isoformat(r.date) = job[w].data.date

C6_LoserStep ==
    \A w \in Workers :
        (C6_conflict(w) /\ pc'[w] # pc[w]) =>
            /\ pc'[w] = "exit"
            /\ out'[w].status = 500
            /\ employees' = employees
            /\ attendance' = attendance

C6_RaceSafe == []C6_Unique /\ [][C6_LoserStep]_vars

(* A create passed both checks, lost the race and was refused at commit.   *)
C6_Witness ==
    \E w \in Workers :
        /\ job[w].op = "create_employee"
        /\ pc[w] = "exit"
        /\ out[w].status = 500
        /\ employees # {}

(* C7: get, delete and mark requests naming an employee_id that is not in  *)
(* the employees table fail with 404 and change neither table.             *)
C7_case ==
    [basic \in BOOLEAN |-> [raw \in RawAttendances |->
        [ok |-> AttendanceCreate(raw, basic).ok,
         employee_id |-> strip(raw.employee_id)]]]

C7_UnknownStep ==
    LET named ==
          IF req'.op \in {"get_employee", "delete_employee"}
          THEN {req'.employee_id}
          ELSE IF req'.op = "mark_attendance" /\ C7_case[isoBasic][req'.raw].ok
          THEN {C7_case[isoBasic][req'.raw].employee_id}
          ELSE {}
    IN  \A id \in named :
            (\A e \in employees : e.employee_id # id) =>
                /\ resp'.status = 404
                /\ UNCHANGED dbvars

C7_UnknownIsNotFound == [][C7_UnknownStep]_vars

(* A mark for an unknown employee was refused while another one exists.    *)
C7_Witness ==
    /\ req.op = "mark_attendance"
    /\ resp.status = 404
    /\ employees # {}
    /\ attendance # {}

(* C8 as stated: with an employee_id filter X the list is exactly the      *)
(* records owned by the employee whose identifier is X; with no filters    *)
(* it is every record.                                                     *)
C8_Original ==
    req.op = "list_attendance" =>
        /\ req.employee_id.some =>
              resp.body = owned_records(employees, attendance, req.employee_id.v)
        /\ (~req.employee_id.some /\ ~req.date.some) =>
              resp.body = all_records(employees, attendance)

(* C8 as amended: the same for a non-empty X; an empty employee_id counts  *)
(* as no filter.                                                           *)
C8_EmployeeFilter ==
    req.op = "list_attendance" =>
        /\ (req.employee_id.some /\ req.employee_id.v # <<>>) =>
              resp.body = owned_records(employees, attendance, req.employee_id.v)
        /\ (~(req.employee_id.some /\ req.employee_id.v # <<>>) /\ ~req.date.some) =>
              resp.body = all_records(employees, attendance)

(* A list filtered by employee returned some records and left out others.  *)
C8_Witness ==
    /\ req.op = "list_attendance"
    /\ req.employee_id.some
    /\ resp.body # {}
    /\ resp.body # all_records(employees, attendance)

(* C9: a create request the schema accepts, with employee_id and email     *)
(* unused, is answered 201, and get-by-id returns its four normalised      *)
(* fields from then on, whatever is served, until the employee is deleted. *)
C9_fields(raw) ==
    [employee_id |-> strip(raw.employee_id), full_name |-> strip(raw.full_name),
     email |-> lower(strip(raw.email)), department |-> strip(raw.department)]

C9_case ==
    [raw \in RawEmployees |->
        [ok |-> EmployeeCreate(raw).ok, fields |-> C9_fields(raw)]]

C9_CreateStep ==
    req'.op = "create_employee" =>
        LET c == C9_case[req'.raw]
        IN  (/\ c.ok
             /\ \A e \in employees :
                   /\ e.employee_id # c.fields.employee_id
                   /\ e.email # c.fields.email)
            => /\ resp' = Response(201, {c.fields})
               /\ get_employee(employees', c.fields.employee_id)
                    = Response(200, {c.fields})

C9_KeptStep ==
    \A id \in PathEmployeeIds :
        get_employee(employees, id).status = 200 =>
            \/ get_employee(employees', id) = get_employee(employees, id)
            \/ /\ req'.op = "delete_employee"
               /\ req'.employee_id = id
               /\ resp'.status = 200

C9_CreatedIsKept == [][C9_CreateStep /\ C9_KeptStep]_vars

(* Get-by-id returned an employee after another was created and            *)
(* attendance was marked.                                                  *)
C9_Witness ==
    /\ req.op = "get_employee"
    /\ resp.status = 200
    /\ Cardinality(employees) = 2
    /\ attendance # {}

(* C10: every session a request opens is eventually closed, whether the    *)
(* handler returned or raised.                                             *)
C10_SessionClosed ==
    \A w \in Workers : (sess[w] = "open") ~> (sess[w] = "closed")

(* A request that was refused at commit has ended and its session is       *)
(* closed.                                                                 *)
C10_Witness ==
    \E w \in Workers :
        /\ pc[w] = "idle"
        /\ sess[w] = "closed"
        /\ out[w].status = 500

====
